---- MODULE Spec2Model ----
(***************************************************************************)
(* A model of the apns2 client: the error taxonomy (error.rs), the         *)
(* notification builder (types.rs) and the delivery client (lib.rs).       *)
(***************************************************************************)
EXTENDS Integers, Sequences, FiniteSets, TLC

VARIABLES
    \* ---- error taxonomy harness (error.rs)
    rIn,            \* the input handed to from_str / to_str / parse_payload
    rOut,           \* what the call returned
    \* ---- builder harness (types.rs)
    bStates,        \* the builder before each call made so far, then the builder now
    bTrace,         \* the calls made on the builder, oldest first
    \* ---- delivery client (lib.rs)
    production,         \* ApnsSync.production
    verbose,            \* ApnsSync.verbose
    delivery_disabled,  \* ApnsSync.delivery_disabled
    easy,               \* the Easy2<Collector> inside ApnsSync.easy
    borrowed,           \* the RefCell's borrow flag: the thread holding the RefMut, or 0
    owner,              \* the thread that has the client (ApnsSync is Send, not Sync)
    pc,                 \* where each thread is inside send
    loc,                \* the locals of each thread's send
    result,             \* what the last finished send returned
    wire,               \* what the last send put on the wire, and what came back
    generated,          \* how many UUIDs Uuid::new_v4 has produced
    calls,              \* how many sends have been started
    touched,            \* how many calls the last send made on the transport handle
    serialized,         \* how many times the last send serialized a payload
    \* ---- CollapseId::new (types.rs)
    cIn,            \* the String handed to CollapseId::new
    cOut            \* what became of it: the Result, and the headers of a send

reasonVars == <<rIn, rOut>>
builderVars == <<bStates, bTrace>>
clientVars == <<production, verbose, delivery_disabled, easy, borrowed, owner, pc,
                loc, result, wire, generated, calls, touched, serialized>>

collapseVars == <<cIn, cOut>>

vars == <<reasonVars, builderVars, clientVars, collapseVars>>

\* Option<T>
None == [some |-> FALSE]
Some(x) == [some |-> TRUE, v |-> x]

(***************************************************************************)
(* error.rs: ApiErrorReason                                                *)
(***************************************************************************)

\* A unit variant of the enum, and the Other(String) variant.  Variants are
\* written "ApiErrorReason::<Variant>" to keep them apart from wire strings.
Unit(variant) == [variant |-> variant, val |-> ""]
Other(s) == [variant |-> "ApiErrorReason::Other", val |-> s]

\* The arms of from_str, in the order of the match: <<wire name, variant>>.
FromStrArms ==
    << <<"BadCollapseId", "ApiErrorReason::BadCollapseId">>,
       <<"BadDeviceToken", "ApiErrorReason::BadDeviceToken">>,
       <<"BadExpirationDate", "ApiErrorReason::BadExpirationDate">>,
       <<"BadMessageId", "ApiErrorReason::BadMessageId">>,
       <<"BadPriority", "ApiErrorReason::BadPriority">>,
       <<"BadTopic", "ApiErrorReason::BadTopic">>,
       <<"DeviceTokenNotForTopic", "ApiErrorReason::DeviceTokenNotForTopic">>,
       <<"DuplicateHeaders", "ApiErrorReason::DuplicateHeaders">>,
       <<"IdleTimeout", "ApiErrorReason::IdleTimeout">>,
       <<"MissingDeviceToken", "ApiErrorReason::MissingDeviceToken">>,
       <<"MissingTopic", "ApiErrorReason::MissingTopic">>,
       <<"PayloadEmpty", "ApiErrorReason::PayloadEmpty">>,
       <<"TopicDisallowed", "ApiErrorReason::TopicDisallowed">>,
       <<"BadCertificate", "ApiErrorReason::BadCertificate">>,
       <<"BadCertificateEnvironment", "ApiErrorReason::BadCertificateEnvironment">>,
       <<"ExpiredProviderToken", "ApiErrorReason::ExpiredProviderToken">>,
       <<"Forbidden", "ApiErrorReason::Forbidden">>,
       <<"InvalidProviderToken", "ApiErrorReason::InvalidProviderToken">>,
       <<"MissingProviderToken", "ApiErrorReason::MissingProviderToken">>,
       <<"BadPath", "ApiErrorReason::BadPath">>,
       <<"MethodNotAllowed", "ApiErrorReason::MethodNotAllowed">>,
       <<"Unregistered", "ApiErrorReason::Unregistered">>,
       <<"PayloadTooLarge", "ApiErrorReason::PayloadTooLarge">>,
       <<"TooManyProviderTokenUpdates", "ApiErrorReason::TooManyProviderTokenUpdates">>,
       <<"TooManyRequests", "ApiErrorReason::TooManyRequests">>,
       <<"InternalServerError", "ApiErrorReason::InternalServerError">>,
       <<"ServiceUnavailable", "ApiErrorReason::ServiceUnavailable">>,
       <<"Shutdown", "ApiErrorReason::Shutdown">> >>

\* The arms of to_str, in the order of the match: <<variant, wire name>>.
ToStrArms ==
    << <<"ApiErrorReason::BadCollapseId", "BadCollapseId">>,
       <<"ApiErrorReason::BadDeviceToken", "BadDeviceToken">>,
       <<"ApiErrorReason::BadExpirationDate", "BadExpirationDate">>,
       <<"ApiErrorReason::BadMessageId", "BadMessageId">>,
       <<"ApiErrorReason::BadPriority", "BadPriority">>,
       <<"ApiErrorReason::BadTopic", "BadTopic">>,
       <<"ApiErrorReason::DeviceTokenNotForTopic", "DeviceTokenNotForTopic">>,
       <<"ApiErrorReason::DuplicateHeaders", "DuplicateHeaders">>,
       <<"ApiErrorReason::IdleTimeout", "IdleTimeout">>,
       <<"ApiErrorReason::MissingDeviceToken", "MissingDeviceToken">>,
       <<"ApiErrorReason::MissingTopic", "MissingTopic">>,
       <<"ApiErrorReason::PayloadEmpty", "PayloadEmpty">>,
       <<"ApiErrorReason::TopicDisallowed", "TopicDisallowed">>,
       <<"ApiErrorReason::BadCertificate", "BadCertificate">>,
       <<"ApiErrorReason::BadCertificateEnvironment", "BadCertificateEnvironment">>,
       <<"ApiErrorReason::ExpiredProviderToken", "ExpiredProviderToken">>,
       <<"ApiErrorReason::Forbidden", "Forbidden">>,
       <<"ApiErrorReason::InvalidProviderToken", "InvalidProviderToken">>,
       <<"ApiErrorReason::MissingProviderToken", "MissingProviderToken">>,
       <<"ApiErrorReason::BadPath", "BadPath">>,
       <<"ApiErrorReason::MethodNotAllowed", "MethodNotAllowed">>,
       <<"ApiErrorReason::Unregistered", "Unregistered">>,
       <<"ApiErrorReason::PayloadTooLarge", "PayloadTooLarge">>,
       <<"ApiErrorReason::TooManyProviderTokenUpdates", "TooManyProviderTokenUpdates">>,
       <<"ApiErrorReason::TooManyRequests", "TooManyRequests">>,
       <<"ApiErrorReason::InternalServerError", "InternalServerError">>,
       <<"ApiErrorReason::ServiceUnavailable", "ServiceUnavailable">>,
       <<"ApiErrorReason::Shutdown", "Shutdown">> >>

\* The names of the unit variants the enum declares.
KnownReasons ==
    { "BadCollapseId", "BadDeviceToken", "BadExpirationDate", "BadMessageId",
      "BadPriority", "BadTopic", "DeviceTokenNotForTopic", "DuplicateHeaders",
      "IdleTimeout", "MissingDeviceToken", "MissingTopic", "PayloadEmpty",
      "TopicDisallowed", "BadCertificate", "BadCertificateEnvironment",
      "ExpiredProviderToken", "Forbidden", "InvalidProviderToken",
      "MissingProviderToken", "BadPath", "MethodNotAllowed", "Unregistered",
      "PayloadTooLarge", "TooManyProviderTokenUpdates", "TooManyRequests",
      "InternalServerError", "ServiceUnavailable", "Shutdown" }

\* The variant a declared name denotes.
Variant(name) == Unit("ApiErrorReason::" \o name)

\* The first arm of a match table whose pattern equals x (0: no arm matches).
FirstArm(arms, x) ==
    IF \E i \in DOMAIN arms : arms[i][1] = x
    THEN CHOOSE i \in DOMAIN arms :
            /\ arms[i][1] = x
            /\ \A j \in DOMAIN arms : arms[j][1] = x => i <= j
    ELSE 0

\* A from_str whose catch-all arm drops the unrecognised text.
from_str_lossy(value) ==
    LET i == FirstArm(FromStrArms, value)
    IN  IF i # 0 THEN Unit(FromStrArms[i][2]) ELSE Other("")

\* ApiErrorReason::from_str
from_str(value) ==
    LET i == FirstArm(FromStrArms, value)
    IN  IF i # 0 THEN Unit(FromStrArms[i][2]) ELSE Other(value)

\* ApiErrorReason::to_str
to_str(reason) ==
    LET i == FirstArm(ToStrArms, reason.variant)
    IN  IF i # 0 THEN ToStrArms[i][2] ELSE reason.val

\* ApiErrorReason::is_bad_device_token
is_bad_device_token(reason) ==
    reason.variant = "ApiErrorReason::BadDeviceToken"

(***************************************************************************)
(* error.rs: ErrorResponse and parse_payload.  A response body is a        *)
(* sequence of JSON lexical tokens; "junk" is any byte that starts no JSON *)
(* token and "ws" is insignificant whitespace.                             *)
(***************************************************************************)

Tok(k) == [k |-> k, s |-> ""]
Str(s) == [k |-> "str", s |-> s]
Num(s) == [k |-> "num", s |-> s]

\* The body {"reason": "<s>"} and the one-element array ["<s>"].
ObjBody(s) == <<Tok("{"), Str("reason"), Tok(":"), Str(s), Tok("}")>>
ArrBody(s) == <<Tok("["), Str(s), Tok("]")>>

IsWs(t) == t.k = "ws"
NotWs(t) == ~IsWs(t)

\* serde_json skips whitespace between tokens.
Significant(b) == SelectSeq(b, NotWs)

At(b, i) == IF i \in DOMAIN b THEN b[i].k ELSE "eof"

\* serde's IgnoredAny: the index after the JSON value that starts at i, or 0
\* when no well-formed value starts there.
RECURSIVE SkipValue(_, _)
RECURSIVE SkipElems(_, _)
RECURSIVE SkipMembers(_, _)
SkipValue(b, i) ==
    CASE At(b, i) \in {"str", "num", "null"} -> i + 1
      [] At(b, i) = "[" -> IF At(b, i + 1) = "]" THEN i + 2 ELSE SkipElems(b, i + 1)
      [] At(b, i) = "{" -> IF At(b, i + 1) = "}" THEN i + 2 ELSE SkipMembers(b, i + 1)
      [] OTHER -> 0
SkipElems(b, i) ==
    LET j == SkipValue(b, i)
    IN  CASE j = 0 -> 0
          [] At(b, j) = "," -> SkipElems(b, j + 1)
          [] At(b, j) = "]" -> j + 1
          [] OTHER -> 0
SkipMembers(b, i) ==
    IF At(b, i) = "str" /\ At(b, i + 1) = ":"
    THEN LET j == SkipValue(b, i + 2)
         IN  CASE j = 0 -> 0
               [] At(b, j) = "," -> SkipMembers(b, j + 1)
               [] At(b, j) = "}" -> j + 1
               [] OTHER -> 0
    ELSE 0

DecodeErr == [ok |-> FALSE, reason |-> "", next |-> 0]

\* The derived Deserialize of ErrorResponse reading a JSON object: the field
\* `reason` must be a string and occur once, other fields are ignored.
\* `i` is at a key, `have` is the reason read so far.
RECURSIVE VisitMap(_, _, _)
VisitMap(b, i, have) ==
    IF At(b, i) = "str" /\ At(b, i + 1) = ":"
    THEN LET isReason == b[i].s = "reason"
             j == IF isReason
                  THEN (IF At(b, i + 2) = "str" /\ ~have.some THEN i + 3 ELSE 0)
                  ELSE SkipValue(b, i + 2)
             now == IF isReason /\ j # 0 THEN Some(b[i + 2].s) ELSE have
         IN  CASE j = 0 -> DecodeErr
               [] At(b, j) = "," -> VisitMap(b, j + 1, now)
               [] At(b, j) = "}" ->
                     IF now.some
                     THEN [ok |-> TRUE, reason |-> now.v, next |-> j + 1]
                     ELSE DecodeErr
               [] OTHER -> DecodeErr
    ELSE DecodeErr

\* The derived Deserialize of ErrorResponse reading a JSON array: the first
\* element is the field `reason`, and the array must end after it.
VisitSeq(b) ==
    IF At(b, 2) = "str" /\ At(b, 3) = "]"
    THEN [ok |-> TRUE, reason |-> b[2].s, next |-> 4]
    ELSE DecodeErr

\* serde_json::from_slice::<ErrorResponse>: one value, then end of input.
from_slice(data) ==
    LET b == Significant(data)
        r == CASE At(b, 1) = "{" ->
                    IF At(b, 2) = "}" THEN DecodeErr ELSE VisitMap(b, 2, None)
              [] At(b, 1) = "[" -> VisitSeq(b)
              [] OTHER -> DecodeErr
    IN  IF r.ok /\ r.next = Len(b) + 1 THEN r ELSE DecodeErr

\* The text of one token, and {:?} of the raw body.
TokText(t) ==
    CASE t.k = "str" -> "\"" \o t.s \o "\""
      [] t.k = "num" -> t.s
      [] t.k = "ws" -> " "
      [] t.k = "junk" -> "?"
      [] OTHER -> t.k
RECURSIVE DebugTail(_, _)
DebugTail(data, i) ==
    IF i > Len(data) THEN ""
    ELSE (IF i > 1 THEN ", " ELSE "") \o TokText(data[i]) \o DebugTail(data, i + 1)
DebugFmt(data) == "[" \o DebugTail(data, 1) \o "]"

UnknownResponse(data) == "Unknown API response: " \o DebugFmt(data)

\* A parse_payload that accepts a value followed by more input.
parse_payload_prefix(data) ==
    LET b == Significant(data)
        r == CASE At(b, 1) = "{" ->
                    IF At(b, 2) = "}" THEN DecodeErr ELSE VisitMap(b, 2, None)
              [] At(b, 1) = "[" -> VisitSeq(b)
              [] OTHER -> DecodeErr
    IN  IF r.ok THEN from_str(r.reason) ELSE Other(UnknownResponse(data))

\* ErrorResponse::parse_payload
parse_payload(data) ==
    LET r == from_slice(data)
    IN  IF r.ok THEN from_str(r.reason) ELSE Other(UnknownResponse(data))

(***************************************************************************)
(* types.rs: Priority, AlertPayload, Alert, Payload, Notification and the  *)
(* NotificationBuilder.                                                    *)
(***************************************************************************)

\* Priority::to_int
to_int(priority) == IF priority = "Low" THEN 5 ELSE 10

\* Result<T, E>
Ok(x) == [ok |-> TRUE, v |-> x]
Err(e) == [ok |-> FALSE, e |-> e]

\* A String is a sequence of chars; a char is named by its code point and
\* takes char::len_utf8 bytes of the String's UTF-8 buffer.
len_utf8(c) ==
    CASE c = "a" -> 1
      [] c = "U+00E9" -> 2
      [] c = "U+20AC" -> 3
      [] c = "U+1F600" -> 4

\* String::len: the length in bytes, not in chars.
RECURSIVE String_len(_)
String_len(value) ==
    IF value = <<>> THEN 0 ELSE len_utf8(Head(value)) + String_len(Tail(value))

\* The text of a String.
RECURSIVE String_text(_)
String_text(value) ==
    IF value = <<>> THEN "" ELSE Head(value) \o String_text(Tail(value))

\* pub struct CollapseIdTooLongError
CollapseIdTooLongError == "CollapseIdTooLongError"

\* A constructor that keeps ids to at most 63 bytes.
CollapseId_new_63(value) ==
    IF String_len(value) >= 64 THEN Err(CollapseIdTooLongError) ELSE Ok(value)

\* CollapseId::new
CollapseId_new(value) ==
    IF String_len(value) > 64 THEN Err(CollapseIdTooLongError) ELSE Ok(value)

\* CollapseId::as_str
as_str(id) == String_text(id)

\* AlertPayload::new
AlertPayload_new(title, body) ==
    [title |-> title, body |-> body, title_loc_key |-> None,
     title_loc_args |-> None, action_loc_key |-> None, loc_key |-> None,
     loc_args |-> None, loc_image |-> None]

\* enum Alert
Simple(text) == [form |-> "Simple", text |-> text, payload |-> AlertPayload_new(None, None)]
PayloadForm(p) == [form |-> "Payload", text |-> "", payload |-> p]

\* Payload::default()
Payload_default ==
    [alert |-> None, badge |-> None, sound |-> None, content_available |-> None,
     category |-> None, thread_id |-> None]

\* Notification::new
Notification_new(topic, device_token, payload) ==
    [topic |-> topic, device_token |-> device_token, payload |-> payload,
     id |-> None, expiration |-> None, priority |-> None, collapse_id |-> None]

\* NotificationBuilder::new
NotificationBuilder_new(topic, device_id) ==
    Notification_new(topic, device_id, Payload_default)

\* NotificationBuilder::payload
Builder_payload(b, payload) == [b EXCEPT !.payload = payload]

\* NotificationBuilder::alert
Builder_alert(b, alert) == [b EXCEPT !.payload.alert = Some(Simple(alert))]

\* A title that starts a new AlertPayload whatever the alert was.
Builder_title_reset(b, title) ==
    [b EXCEPT !.payload.alert = Some(PayloadForm(AlertPayload_new(Some(title), None)))]

\* NotificationBuilder::title
Builder_title(b, title) ==
    LET old == b.payload.alert
        payload ==
            CASE ~old.some -> AlertPayload_new(Some(title), None)
              [] old.some /\ old.v.form = "Simple" -> AlertPayload_new(Some(title), None)
              [] old.some /\ old.v.form = "Payload" ->
                    [old.v.payload EXCEPT !.title = Some(title)]
    IN  [b EXCEPT !.payload.alert = Some(PayloadForm(payload))]

\* A body that drops the text of a Simple alert instead of keeping it as title.
Builder_body_drop(b, body) ==
    LET old == b.payload.alert
        payload ==
            CASE ~old.some -> AlertPayload_new(None, Some(body))
              [] old.some /\ old.v.form = "Simple" -> AlertPayload_new(None, Some(body))
              [] old.some /\ old.v.form = "Payload" ->
                    [old.v.payload EXCEPT !.body = Some(body)]
    IN  [b EXCEPT !.payload.alert = Some(PayloadForm(payload))]

\* NotificationBuilder::body
Builder_body(b, body) ==
    LET old == b.payload.alert
        payload ==
            CASE ~old.some -> AlertPayload_new(None, Some(body))
              [] old.some /\ old.v.form = "Simple" ->
                    AlertPayload_new(Some(old.v.text), Some(body))
              [] old.some /\ old.v.form = "Payload" ->
                    [old.v.payload EXCEPT !.body = Some(body)]
    IN  [b EXCEPT !.payload.alert = Some(PayloadForm(payload))]

\* NotificationBuilder::badge, sound, content_available, category, thread_id
Builder_badge(b, number) == [b EXCEPT !.payload.badge = Some(number)]
Builder_sound(b, sound) == [b EXCEPT !.payload.sound = Some(sound)]
Builder_content_available(b) == [b EXCEPT !.payload.content_available = Some(TRUE)]
Builder_category(b, category) == [b EXCEPT !.payload.category = Some(category)]
Builder_thread_id(b, thread_id) == [b EXCEPT !.payload.thread_id = Some(thread_id)]

\* NotificationBuilder::id, expiration, priority, collapse_id
Builder_id(b, id) == [b EXCEPT !.id = Some(id)]
Builder_expiration(b, expiration) == [b EXCEPT !.expiration = Some(expiration)]
Builder_priority(b, priority) == [b EXCEPT !.priority = Some(priority)]
Builder_collapse_id(b, id) == [b EXCEPT !.collapse_id = Some(id)]

(***************************************************************************)
(* types.rs: serialization of the request body (the serde derives).        *)
(***************************************************************************)

JsonStr(s) == "\"" \o s \o "\""

RECURSIVE Join(_, _)
Join(parts, sep) ==
    IF parts = <<>> THEN ""
    ELSE IF Len(parts) = 1 THEN parts[1]
    ELSE parts[1] \o sep \o Join(Tail(parts), sep)

RECURSIVE JsonStrs(_)
JsonStrs(ss) == IF ss = <<>> THEN <<>> ELSE <<JsonStr(Head(ss))>> \o JsonStrs(Tail(ss))

JsonArr(ss) == "[" \o Join(JsonStrs(ss), ",") \o "]"

\* One field under skip_serializing_if = "Option::is_none": nothing when None.
Field(key, opt, text) ==
    IF opt.some THEN <<JsonStr(key) \o ":" \o text>> ELSE <<>>

JsonObj(fields) == "{" \o Join(fields, ",") \o "}"

\* Serialize for AlertPayload
Ser_AlertPayload(p) ==
    JsonObj(
        Field("title", p.title, IF p.title.some THEN JsonStr(p.title.v) ELSE "")
        \o Field("body", p.body, IF p.body.some THEN JsonStr(p.body.v) ELSE "")
        \o Field("title-loc-key", p.title_loc_key,
                 IF p.title_loc_key.some THEN JsonStr(p.title_loc_key.v) ELSE "")
        \o Field("title-loc-args", p.title_loc_args,
                 IF p.title_loc_args.some THEN JsonArr(p.title_loc_args.v) ELSE "")
        \o Field("action-loc-key", p.action_loc_key,
                 IF p.action_loc_key.some THEN JsonStr(p.action_loc_key.v) ELSE "")
        \o Field("loc-key", p.loc_key, IF p.loc_key.some THEN JsonStr(p.loc_key.v) ELSE "")
        \o Field("loc-args", p.loc_args, IF p.loc_args.some THEN JsonArr(p.loc_args.v) ELSE "")
        \o Field("loc_image", p.loc_image,
                 IF p.loc_image.some THEN JsonStr(p.loc_image.v) ELSE ""))

\* Serialize for Alert (untagged)
Ser_Alert(a) == IF a.form = "Simple" THEN JsonStr(a.text) ELSE Ser_AlertPayload(a.payload)

\* Serialize for Payload
Ser_Payload(p) ==
    JsonObj(
        Field("alert", p.alert, IF p.alert.some THEN Ser_Alert(p.alert.v) ELSE "")
        \o Field("badge", p.badge, IF p.badge.some THEN ToString(p.badge.v) ELSE "")
        \o Field("sound", p.sound, IF p.sound.some THEN JsonStr(p.sound.v) ELSE "")
        \o Field("content-available", p.content_available,
                 IF p.content_available.some
                 THEN (IF p.content_available.v THEN "true" ELSE "false") ELSE "")
        \o Field("category", p.category, IF p.category.some THEN JsonStr(p.category.v) ELSE "")
        \o Field("thread-id", p.thread_id,
                 IF p.thread_id.some THEN JsonStr(p.thread_id.v) ELSE ""))

\* serde_json::to_vec(&ApnsRequest { aps: payload })
to_vec(payload) == "{" \o JsonStr("aps") \o ":" \o Ser_Payload(payload) \o "}"

(***************************************************************************)
(* lib.rs: ApnsSync                                                        *)
(***************************************************************************)

APN_URL_PRODUCTION == "https://api.push.apple.com"
APN_URL_DEV == "https://api.development.push.apple.com"

\* A Uuid is one the caller configured or one Uuid::new_v4 produced.
ConfiguredUuid(k) == [src |-> "configured", n |-> k]
GeneratedUuid(k) == [src |-> "generated", n |-> k]
NilUuid == [src |-> "nil", n |-> 0]

\* Uuid::to_string: the hyphenated form.
Uuid_to_string(u) ==
    (IF u.src = "generated" THEN "00000000-0000-4000-8000-" ELSE "11111111-1111-1111-8111-")
    \o ToString(u.n)

\* Strings with an interior NUL byte: CString::new rejects them, so
\* List::append and Easy2::url fail on them.
NulTopic == "com.example\\0app"
NulToken == "abcd\\01234"
HasNul(s) == s \in {NulTopic, NulToken}

\* ApnsSync::build_url
build_url(isProduction, device_token) ==
    (IF isProduction THEN APN_URL_PRODUCTION ELSE APN_URL_DEV)
    \o "/3/device/" \o device_token

\* An id that never uses the notification's own.
DeliveryId_always_fresh(n, fresh) == fresh

\* let id = n.id.unwrap_or(Uuid::new_v4())
DeliveryId(n, fresh) == IF n.id.some THEN n.id.v ELSE fresh

\* Headers that leave out the header of an unset option.
HeaderFields_omitting(n, id) ==
    << <<"apns-id", Uuid_to_string(id)>> >>
    \o (IF n.expiration.some
        THEN << <<"apns-expiration", ToString(n.expiration.v)>> >> ELSE <<>>)
    \o (IF n.priority.some
        THEN << <<"apns-priority", ToString(to_int(n.priority.v))>> >> ELSE <<>>)
    \o << <<"apns-topic", n.topic>> >>
    \o (IF n.collapse_id.some
        THEN << <<"apns-collapse-id", n.collapse_id.v>> >> ELSE <<>>)

\* The five headers send formats, in order: <<name, value>>.
HeaderFields(n, id) ==
    << <<"apns-id", Uuid_to_string(id)>>,
       <<"apns-expiration",
         IF n.expiration.some THEN ToString(n.expiration.v) ELSE "">>,
       <<"apns-priority",
         IF n.priority.some THEN ToString(to_int(n.priority.v)) ELSE "">>,
       <<"apns-topic", n.topic>>,
       <<"apns-collapse-id",
         IF n.collapse_id.some THEN n.collapse_id.v ELSE "">> >>

\* format!("{}:{}", name, value), the line handed to List::append
HeaderLine(f) == f[1] \o ":" \o f[2]

HeaderLines(fields) == [i \in DOMAIN fields |-> HeaderLine(fields[i])]

\* List::append fails on a line with an interior NUL.
AppendFails(fields) == \E i \in DOMAIN fields : HasNul(fields[i][2])

\* A status test that takes every 2xx for success.
IsSuccess_any_2xx(status) == status >= 200 /\ status < 300

\* if status != 200 { .. } else { Ok(id) }
IsSuccess(status) == status = 200

(***************************************************************************)
(* The client as a state machine.  send is cut where another thread could  *)
(* run: before the RefCell is borrowed, and around each use of the handle. *)
(***************************************************************************)

NThreads == 2
MaxCalls == 2

Threads == 1..NThreads

\* What a completed exchange may bring back: <<status, response body>>.
Exchanges ==
    { <<200, <<>> >>, <<204, <<>> >>, <<410, <<>> >>, <<410, ObjBody("Unregistered")>> }

\* What reaches the Collector before a transfer fails.
PartialChunks == { <<>>, <<Tok("{")>> }

\* The notifications callers send.
BaseNotification ==
    Builder_alert(NotificationBuilder_new("com.example.app", "abcd1234"), "Hello")
Notifications ==
    { BaseNotification,
      Builder_collapse_id(Builder_priority(Builder_expiration(
          Builder_id(BaseNotification, ConfiguredUuid(1)), 1700000000), "High"), "c1"),
      Builder_priority(Builder_expiration(BaseNotification, 0), "Low"),
      [BaseNotification EXCEPT !.topic = NulTopic],
      [BaseNotification EXCEPT !.device_token = NulToken] }

NoNotification == Notification_new("", "", Payload_default)

NoLoc == [seq |-> 0, n |-> NoNotification, id |-> NilUuid, fresh |-> NilUuid,
          headers |-> <<>>, raw_request |-> "", url |-> ""]

\* What a send returned: Ok(id), Err(SendError::Api(ApiError{status, reason})),
\* Err(SendError::Other(_)) or a panic; `fate` is the step that ended the call.
Outcome(seq, t, n, fresh, kind, fate, id, status, reason) ==
    [seq |-> seq, by |-> t, n |-> n, fresh |-> fresh, kind |-> kind, fate |-> fate,
     id |-> id, status |-> status, reason |-> reason]

NoResult == Outcome(0, 0, NoNotification, NilUuid, "none", "none", NilUuid, 0, Other(""))

NoWire == [seq |-> 0, by |-> 0, n |-> NoNotification, id |-> NilUuid, headers |-> <<>>,
           body |-> "", url |-> "", post |-> FALSE, completed |-> FALSE,
           status |-> 0, resp |-> <<>>]

\* Easy2::new(Collector(Vec::new()))
Easy2_new == [verbose |-> FALSE, http_headers |-> <<>>, post |-> FALSE,
              post_fields |-> "", url |-> "", response_code |-> 0,
              collector |-> <<>>]

\* ApnsSync::new
ClientInit ==
    /\ production = TRUE
    /\ verbose = FALSE
    /\ delivery_disabled = FALSE
    /\ easy = Easy2_new
    /\ borrowed = 0
    /\ owner \in Threads
    /\ pc = [t \in Threads |-> "idle"]
    /\ loc = [t \in Threads |-> NoLoc]
    /\ result = NoResult
    /\ wire = NoWire
    /\ generated = 0
    /\ calls = 0
    /\ touched = 0
    /\ serialized = 0

\* A client that any thread may use at any time.
HasAccess_shared(t) == TRUE

\* ApnsSync holds a RefCell, so it is Send and not Sync: one thread at a time
\* has the client, and only that thread can call its methods.
HasAccess(t) == owner = t

\* &mut self: no send borrows the client.
Exclusive(t) == HasAccess(t) /\ \A u \in Threads : pc[u] = "idle"

\* The client is moved (or its lock handed) to another thread between calls.
Handoff(t, u) ==
    /\ HasAccess(t)
    /\ pc[t] = "idle"
    /\ u # t
    /\ owner' = u
    /\ UNCHANGED <<production, verbose, delivery_disabled, easy, borrowed, pc, loc,
                   result, wire, generated, calls, touched, serialized>>

\* ApnsSync::set_verbose
set_verbose(t, v) ==
    /\ Exclusive(t)
    /\ v # verbose
    /\ verbose' = v
    /\ UNCHANGED <<production, delivery_disabled, easy, borrowed, owner, pc, loc,
                   result, wire, generated, calls, touched, serialized>>

\* ApnsSync::set_production
set_production(t, v) ==
    /\ Exclusive(t)
    /\ v # production
    /\ production' = v
    /\ UNCHANGED <<verbose, delivery_disabled, easy, borrowed, owner, pc, loc,
                   result, wire, generated, calls, touched, serialized>>

\* ApnsSync::disable_delivery_for_testing
disable_delivery_for_testing(t) ==
    /\ Exclusive(t)
    /\ delivery_disabled' = TRUE
    /\ UNCHANGED <<production, verbose, easy, borrowed, owner, pc, loc,
                   result, wire, generated, calls, touched, serialized>>

\* send returns: the thread's frame is dropped.
Done(t, r) ==
    /\ result' = r
    /\ pc' = [pc EXCEPT ![t] = "idle"]
    /\ loc' = [loc EXCEPT ![t] = NoLoc]

\* What a send in flight returns with.
Returns(t, kind, fate, id, status, reason) ==
    Done(t, Outcome(loc[t].seq, t, loc[t].n, loc[t].fresh, kind, fate, id, status, reason))

\* A send that ignores the delivery_disabled flag.
SkipsDelivery_never == FALSE

\* if self.delivery_disabled { return Ok(id); }
SkipsDelivery == delivery_disabled

\* ApnsSync::send, up to the serialized request.  `serOk` is whether
\* serde_json::to_vec returns Ok.
SendStart(t, n, serOk) ==
    /\ HasAccess(t)
    /\ pc[t] = "idle"
    /\ calls < MaxCalls
    /\ calls' = calls + 1
    /\ generated' = generated + 1
    /\ LET fresh == GeneratedUuid(generated + 1)
           id == DeliveryId(n, fresh)
           url == build_url(production, n.device_token)
           fields == HeaderFields(n, id)
           out(kind, fate, rid) ==
               Outcome(calls + 1, t, n, fresh, kind, fate, rid, 0, Other(""))
       IN  IF SkipsDelivery
           THEN /\ Done(t, out("Ok", "disabled", id))
                /\ serialized' = 0
           ELSE IF AppendFails(fields)
           THEN /\ Done(t, out("Other", "header", NilUuid))
                /\ serialized' = 0
           ELSE /\ serialized' = 1
                /\ IF serOk
                   THEN /\ pc' = [pc EXCEPT ![t] = "ready"]
                        /\ loc' = [loc EXCEPT ![t] =
                                    [seq |-> calls + 1, n |-> n, id |-> id, fresh |-> fresh,
                                     headers |-> HeaderLines(fields),
                                     raw_request |-> to_vec(n.payload), url |-> url]]
                        /\ result' = NoResult
                   ELSE Done(t, out("Other", "serialize", NilUuid))
    /\ touched' = 0
    /\ wire' = NoWire
    /\ UNCHANGED <<production, verbose, delivery_disabled, easy, borrowed, owner>>

\* let mut easy = self.easy.borrow_mut(): panics if the RefCell is borrowed.
Borrow(t) ==
    /\ pc[t] = "ready"
    /\ IF borrowed # 0
       THEN /\ Returns(t, "Panic", "borrow", NilUuid, 0, Other(""))
            /\ UNCHANGED borrowed
       ELSE /\ borrowed' = t
            /\ pc' = [pc EXCEPT ![t] = "borrowed"]
            /\ UNCHANGED <<loc, result>>
    /\ UNCHANGED <<production, verbose, delivery_disabled, easy, owner, wire,
                   generated, calls, touched, serialized>>

\* The setters of one request in the order send calls them.
ConfigSteps == <<"verbose", "http_headers", "post", "post_fields_copy", "url">>

\* The setter that returns Err for a reason outside the request (0: none).
ConfigFailures == {0, 2}

\* The handle after the first k setters of thread t's request.
Configured(e, t, k) ==
    [e EXCEPT !.verbose = IF k >= 1 THEN verbose ELSE @,
              !.http_headers = IF k >= 2 THEN loc[t].headers ELSE @,
              !.post = IF k >= 3 THEN TRUE ELSE @,
              !.post_fields = IF k >= 4 THEN loc[t].raw_request ELSE @,
              !.url = IF k >= 5 THEN loc[t].url ELSE @]

\* easy.verbose(..)?; easy.http_headers(..)?; easy.post(true)?;
\* easy.post_fields_copy(..)?; easy.url(..)?  `failAt` is the setter that
\* returns Err (0: none); Easy2::url fails by itself on a NUL in the URL.
Configure(t, failAt) ==
    /\ pc[t] = "borrowed"
    /\ LET fail == IF failAt = 0 /\ HasNul(loc[t].n.device_token)
                   THEN Len(ConfigSteps) ELSE failAt
           made == IF fail = 0 THEN Len(ConfigSteps) ELSE fail
           done == IF fail = 0 THEN Len(ConfigSteps) ELSE fail - 1
       IN  /\ easy' = Configured(easy, t, done)
           /\ touched' = touched + made
           /\ IF fail = 0
              THEN /\ pc' = [pc EXCEPT ![t] = "configured"]
                   /\ UNCHANGED <<loc, result, borrowed>>
              ELSE /\ Returns(t, "Other", ConfigSteps[fail], NilUuid, 0, Other(""))
                   /\ borrowed' = 0
    /\ UNCHANGED <<production, verbose, delivery_disabled, owner, wire, generated,
                   calls, serialized>>

\* easy.perform()?: the transfer runs with what the handle holds; the body
\* that arrives is appended to the Collector by Collector::write.
Perform(t, ok, status, body) ==
    /\ pc[t] = "configured"
    /\ touched' = touched + 1
    /\ wire' = [seq |-> loc[t].seq, by |-> t, n |-> loc[t].n, id |-> loc[t].id,
                headers |-> easy.http_headers, body |-> easy.post_fields,
                url |-> easy.url, post |-> easy.post, completed |-> ok,
                status |-> IF ok THEN status ELSE 0, resp |-> body]
    /\ IF ok
       THEN /\ easy' = [easy EXCEPT !.collector = @ \o body, !.response_code = status]
            /\ pc' = [pc EXCEPT ![t] = "performed"]
            /\ UNCHANGED <<loc, result, borrowed>>
       ELSE /\ easy' = [easy EXCEPT !.collector = @ \o body]
            /\ Returns(t, "Other", "perform", NilUuid, 0, Other(""))
            /\ borrowed' = 0
    /\ UNCHANGED <<production, verbose, delivery_disabled, owner, generated, calls,
                   serialized>>

\* let status = easy.response_code()?; and the match on it.  `rcOk` is
\* whether response_code returns Ok.
Finish(t, rcOk) ==
    /\ pc[t] = "performed"
    /\ touched' = touched + 1
    /\ LET status == easy.response_code
       IN  IF ~rcOk
           THEN Returns(t, "Other", "response_code", NilUuid, 0, Other(""))
           ELSE IF ~IsSuccess(status)
           THEN Returns(t, "Api", "completed", NilUuid, status,
                        parse_payload(easy.collector))
           ELSE Returns(t, "Ok", "completed", loc[t].id, status, Other(""))
    /\ borrowed' = 0
    /\ UNCHANGED <<production, verbose, delivery_disabled, easy, owner, wire,
                   generated, calls, serialized>>

ReasonIdle == rIn = [kind |-> "none", str |-> "", body |-> <<>>, reason |-> Other("")]
                 /\ rOut = [op |-> "none", reason |-> Other(""), text |-> "", bad |-> FALSE]
BuilderIdle == bStates = <<>> /\ bTrace = <<>>
CollapseIdle == cIn = <<>> /\ cOut = [op |-> "none"]

Init == ClientInit /\ ReasonIdle /\ BuilderIdle /\ CollapseIdle

Next ==
    \/ \E t \in Threads, u \in Threads : Handoff(t, u) /\ UNCHANGED <<reasonVars, builderVars, collapseVars>>
    \/ \E t \in Threads, v \in BOOLEAN : set_verbose(t, v) /\ UNCHANGED <<reasonVars, builderVars, collapseVars>>
    \/ \E t \in Threads, v \in BOOLEAN : set_production(t, v) /\ UNCHANGED <<reasonVars, builderVars, collapseVars>>
    \/ \E t \in Threads : disable_delivery_for_testing(t) /\ UNCHANGED <<reasonVars, builderVars, collapseVars>>
    \/ \E t \in Threads, n \in Notifications, serOk \in BOOLEAN :
          SendStart(t, n, serOk) /\ UNCHANGED <<reasonVars, builderVars, collapseVars>>
    \/ \E t \in Threads : Borrow(t) /\ UNCHANGED <<reasonVars, builderVars, collapseVars>>
    \/ \E t \in Threads, failAt \in ConfigFailures :
          Configure(t, failAt) /\ UNCHANGED <<reasonVars, builderVars, collapseVars>>
    \/ \E t \in Threads, x \in Exchanges :
          Perform(t, TRUE, x[1], x[2]) /\ UNCHANGED <<reasonVars, builderVars, collapseVars>>
    \/ \E t \in Threads, chunk \in PartialChunks :
          Perform(t, FALSE, 0, chunk) /\ UNCHANGED <<reasonVars, builderVars, collapseVars>>
    \/ \E t \in Threads, rcOk \in BOOLEAN : Finish(t, rcOk) /\ UNCHANGED <<reasonVars, builderVars, collapseVars>>

Spec == Init /\ [][Next]_vars

(***************************************************************************)
(* The taxonomy on its own: from_str, to_str and parse_payload applied to  *)
(* inputs drawn from bounded sets.                                         *)
(***************************************************************************)

MaxBodyLen == 3

\* Strings that name no variant.
UnknownStrings ==
    {"", "Novel", "baddevicetoken", "BadDeviceToken ", "Other", "reason"}

TestStrings == KnownReasons \cup UnknownStrings

ReasonValues ==
    { Variant(name) : name \in KnownReasons } \cup { Other(s) : s \in UnknownStrings }

Alphabet ==
    { Tok("{"), Tok("}"), Tok("["), Tok("]"), Tok(":"), Tok(","), Tok("null"),
      Tok("junk"), Tok("ws"), Num("410"), Str("reason"), Str("Unregistered"),
      Str("BadDeviceToken"), Str("Novel") }

\* Every token sequence of at most MaxBodyLen tokens.
ShortBodies == UNION { [1..n -> Alphabet] : n \in 0..MaxBodyLen }

\* Bodies that are JSON but not an ErrorResponse.
WrongShapeBodies ==
    { <<Tok("{"), Tok("}")>>,
      <<Tok("{"), Str("reason"), Tok(":"), Num("410"), Tok("}")>>,
      <<Tok("{"), Str("reason"), Tok(":"), Tok("null"), Tok("}")>>,
      <<Tok("{"), Str("error"), Tok(":"), Str("Unregistered"), Tok("}")>>,
      <<Tok("{"), Str("reason"), Tok(":"), Str("Unregistered"), Tok(","),
        Str("reason"), Tok(":"), Str("Shutdown"), Tok("}")>>,
      <<Tok("{"), Str("reason"), Tok(":"), Str("Unregistered"), Tok(","), Tok("}")>>,
      <<Tok("["), Tok("]")>>,
      <<Tok("["), Num("410"), Tok("]")>>,
      <<Tok("["), Str("Unregistered"), Tok(","), Str("Shutdown"), Tok("]")>>,
      <<Str("Unregistered")>>,
      <<Num("410")>>,
      <<Tok("null")>> }

\* Well-formed bodies that carry fields besides `reason`.
ExtraFieldBodies ==
    { <<Tok("{"), Str("status"), Tok(":"), Num("410"), Tok(","),
        Str("reason"), Tok(":"), Str("Shutdown"), Tok("}")>>,
      <<Tok("{"), Str("reason"), Tok(":"), Str("Novel"), Tok(","),
        Str("timestamp"), Tok(":"), Tok("["), Num("410"), Tok("]"), Tok("}")>>,
      <<Tok("{"), Str("reason"), Tok(":"), Str("BadDeviceToken"), Tok(","),
        Str("detail"), Tok(":"), Tok("{"), Str("a"), Tok(":"), Tok("null"), Tok("}"),
        Tok("}")>> }

\* The significant tokens that may follow a complete value.
Trailers == { t \in Alphabet : NotWs(t) }

TestBodies ==
    ShortBodies
    \cup WrongShapeBodies
    \cup ExtraFieldBodies
    \cup { ObjBody(s) : s \in TestStrings }
    \cup { <<Tok("ws")>> \o ObjBody(s) \o <<Tok("ws")>> : s \in TestStrings }
    \cup { ObjBody(s) \o <<t>> : s \in {"Unregistered", "Novel"}, t \in Trailers }
    \cup { ArrBody(s) \o <<t>> : s \in {"Unregistered", "Novel"}, t \in Trailers }
    \cup { ObjBody(s) \o ObjBody(s) : s \in {"Unregistered", "BadDeviceToken"} }

StrIn(s) == [kind |-> "str", str |-> s, body |-> <<>>, reason |-> Other("")]
ReasonIn(r) == [kind |-> "reason", str |-> "", body |-> <<>>, reason |-> r]
BodyIn(b) == [kind |-> "body", str |-> "", body |-> b, reason |-> Other("")]

NoOut == [op |-> "none", reason |-> Other(""), text |-> "", bad |-> FALSE]

ReasonInit ==
    /\ rIn \in { StrIn(s) : s \in TestStrings }
                \cup { ReasonIn(r) : r \in ReasonValues }
                \cup { BodyIn(b) : b \in TestBodies }
    /\ rOut = NoOut
    /\ BuilderIdle
    /\ CollapseIdle
    /\ ClientInit /\ owner = 1

\* Decode a wire string, then encode the result.
Decode ==
    /\ rIn.kind = "str"
    /\ rOut.op = "none"
    /\ LET r == from_str(rIn.str)
       IN  rOut' = [op |-> "from_str", reason |-> r, text |-> to_str(r),
                    bad |-> is_bad_device_token(r)]
    /\ UNCHANGED <<rIn, builderVars, clientVars, collapseVars>>

\* Encode a reason, then decode the text.
Encode ==
    /\ rIn.kind = "reason"
    /\ rOut.op = "none"
    /\ LET s == to_str(rIn.reason)
           r == from_str(s)
       IN  rOut' = [op |-> "to_str", reason |-> r, text |-> s,
                    bad |-> is_bad_device_token(r)]
    /\ UNCHANGED <<rIn, builderVars, clientVars, collapseVars>>

\* Parse a response body.
Parse ==
    /\ rIn.kind = "body"
    /\ rOut.op = "none"
    /\ LET r == parse_payload(rIn.body)
       IN  rOut' = [op |-> "parse_payload", reason |-> r, text |-> to_str(r),
                    bad |-> is_bad_device_token(r)]
    /\ UNCHANGED <<rIn, builderVars, clientVars, collapseVars>>

ReasonNext ==
    \/ Decode
    \/ Encode
    \/ Parse

SpecReason == ReasonInit /\ [][ReasonNext]_vars

\* C9: every declared reason survives to_str then from_str; a string that
\* names no variant decodes to Other(that string) and encodes back to itself;
\* is_bad_device_token holds of a decoded reason only for "BadDeviceToken".
C9_ReasonRoundTrip ==
    /\ (rOut.op = "to_str" /\ \E name \in KnownReasons : rIn.reason = Variant(name))
          => rOut.reason = rIn.reason
    /\ (rOut.op = "to_str")
          => \A name \in KnownReasons : rIn.reason = Variant(name) => rOut.text = name
    /\ (rOut.op = "from_str" /\ rIn.str \notin KnownReasons)
          => /\ rOut.reason = Other(rIn.str)
             /\ rOut.text = rIn.str
    /\ (rOut.op = "from_str" /\ rIn.str \in KnownReasons)
          => /\ rOut.reason = Variant(rIn.str)
             /\ rOut.text = rIn.str
    /\ (rOut.op = "from_str")
          => (rOut.bad <=> rIn.str = "BadDeviceToken")

C9_Witness ==
    /\ rOut.op = "from_str"
    /\ rIn.str = "Novel"
    /\ rOut.reason = Other("Novel")
    /\ rOut.text = "Novel"

\* The variants a reason can have.
AllVariants == { Variant(name).variant : name \in KnownReasons } \cup { Other("").variant }

\* The first significant token of a body.
FirstKind(b) == At(Significant(b), 1)

HasJunk(b) == \E i \in DOMAIN b : b[i].k = "junk"

\* The body is a JSON object that carries one string field `reason`.
IsReasonObject(b) == FirstKind(b) = "{" /\ from_slice(b).ok

\* C10 as stated: parsing is total, a body that is not an object with a string
\* `reason` field yields Other(diagnostic of the raw body), and one that is
\* yields from_str of its reason.
C10_AsStated ==
    rOut.op = "parse_payload" =>
        /\ rOut.reason.variant \in AllVariants
        /\ IsReasonObject(rIn.body) => rOut.reason = from_str(from_slice(rIn.body).reason)
        /\ ~IsReasonObject(rIn.body) => rOut.reason = Other(UnknownResponse(rIn.body))

\* C10, amended: parsing is total; {"reason": S} and the one-element array
\* [S] both yield from_str(S), fields besides `reason` being ignored; an
\* empty body, a body that starts no object or array, a body with a byte that
\* is no JSON, a body of the wrong shape and a value followed by more input
\* yield Other(diagnostic of the raw body); nothing else is ever returned.
C10_ParseTotal ==
    rOut.op = "parse_payload" =>
        LET b == rIn.body
            diag == Other(UnknownResponse(b))
        IN  /\ rOut.reason.variant \in AllVariants
            /\ \A s \in TestStrings :
                  (b = ObjBody(s) \/ b = ArrBody(s)
                     \/ b = <<Tok("ws")>> \o ObjBody(s) \o <<Tok("ws")>>)
                  => rOut.reason = from_str(s)
            /\ b \in ExtraFieldBodies
                  => \E i \in DOMAIN b :
                        /\ i > 2 /\ b[i - 2] = Str("reason") /\ b[i - 1] = Tok(":")
                        /\ rOut.reason = from_str(b[i].s)
            /\ (FirstKind(b) \notin {"{", "["} \/ HasJunk(b) \/ b \in WrongShapeBodies)
                  => rOut.reason = diag
            /\ (\E s \in TestStrings, t \in Trailers :
                    b = ObjBody(s) \o <<t>> \/ b = ArrBody(s) \o <<t>>)
                  => rOut.reason = diag
            /\ (\E s \in TestStrings : b = ObjBody(s) \o ObjBody(s))
                  => rOut.reason = diag
            /\ \/ rOut.reason = diag
               \/ \E i \in DOMAIN b : b[i].k = "str" /\ rOut.reason = from_str(b[i].s)
            /\ rOut.reason = diag => rOut.text = "Unknown API response: " \o DebugFmt(b)

C10_Witness ==
    /\ rOut.op = "parse_payload"
    /\ rIn.body = ArrBody("BadDeviceToken")
    /\ rOut.reason = Variant("BadDeviceToken")

(***************************************************************************)
(* The builder on its own: the calls of NotificationBuilder applied in     *)
(* every order up to MaxBuilderCalls.                                      *)
(***************************************************************************)

MaxBuilderCalls == 3

BuilderTexts == {"T", "B"}

\* An AlertPayload with fields besides title and body.
LocalizedAlert ==
    [AlertPayload_new(Some("old title"), Some("old body")) EXCEPT
        !.loc_key = Some("GAME_PLAY_REQUEST_FORMAT"),
        !.loc_args = Some(<<"Jenna", "Frank">>),
        !.action_loc_key = Some("PLAY")]

\* The payloads handed to NotificationBuilder::payload, by name.
PresetPayload(name) ==
    CASE name = "default" -> Payload_default
      [] name = "localized" ->
            [Payload_default EXCEPT !.alert = Some(PayloadForm(LocalizedAlert)),
                                    !.sound = Some("default")]
      [] name = "untitled" ->
            [Payload_default EXCEPT
                !.alert = Some(PayloadForm(
                    [AlertPayload_new(None, None) EXCEPT !.loc_image = Some("img.png")]))]

PresetNames == {"default", "localized", "untitled"}

Call(op, text) == [op |-> op, text |-> text]

Builder == bStates[Len(bStates)]

BuilderInit ==
    /\ bStates = <<NotificationBuilder_new("com.example.app", "abcd1234")>>
    /\ bTrace = <<>>
    /\ ReasonIdle
    /\ CollapseIdle
    /\ ClientInit /\ owner = 1

\* The builder is consumed by `call` and the builder it returns replaces it.
Chain(call, next) ==
    /\ Len(bTrace) < MaxBuilderCalls
    /\ IF bTrace = <<>> THEN TRUE ELSE bTrace[Len(bTrace)].op # "build"
    /\ bTrace' = Append(bTrace, call)
    /\ bStates' = Append(bStates, next)
    /\ UNCHANGED <<reasonVars, clientVars, collapseVars>>

BPayload(name) == Chain(Call("payload", name), Builder_payload(Builder, PresetPayload(name)))
BAlert(x) == Chain(Call("alert", x), Builder_alert(Builder, x))
BTitle(x) == Chain(Call("title", x), Builder_title(Builder, x))
BBody(x) == Chain(Call("body", x), Builder_body(Builder, x))
BBadge == Chain(Call("badge", "1"), Builder_badge(Builder, 1))
BSound == Chain(Call("sound", "default"), Builder_sound(Builder, "default"))
BContentAvailable == Chain(Call("content_available", ""), Builder_content_available(Builder))
BCategory == Chain(Call("category", "INVITE"), Builder_category(Builder, "INVITE"))
BThreadId == Chain(Call("thread_id", "thread-1"), Builder_thread_id(Builder, "thread-1"))
BId == Chain(Call("id", "1"), Builder_id(Builder, ConfiguredUuid(1)))
BExpiration == Chain(Call("expiration", "1700000000"), Builder_expiration(Builder, 1700000000))
BPriority(x) == Chain(Call("priority", x), Builder_priority(Builder, x))
BCollapseId == Chain(Call("collapse_id", "c1"), Builder_collapse_id(Builder, "c1"))
\* NotificationBuilder::build
BBuild == Chain(Call("build", ""), Builder)

BuilderNext ==
    \/ \E name \in PresetNames : BPayload(name)
    \/ \E x \in BuilderTexts : BAlert(x)
    \/ \E x \in BuilderTexts : BTitle(x)
    \/ \E x \in BuilderTexts : BBody(x)
    \/ BBadge
    \/ BSound
    \/ BContentAvailable
    \/ BCategory
    \/ BThreadId
    \/ BId
    \/ BExpiration
    \/ \E x \in {"Low", "High"} : BPriority(x)
    \/ BCollapseId
    \/ BBuild

SpecBuilder == BuilderInit /\ [][BuilderNext]_vars

\* The last two calls on the builder were first(x) then second(y).
LastTwo(first, x, second, y) ==
    /\ Len(bTrace) >= 2
    /\ bTrace[Len(bTrace) - 1] = Call(first, x)
    /\ bTrace[Len(bTrace)] = Call(second, y)

\* The builder before the last two calls, and its AlertPayload when its alert
\* is Payload-form (an AlertPayload with nothing set otherwise).
BeforeLastTwo == bStates[Len(bStates) - 2]
PriorFields ==
    LET old == BeforeLastTwo.payload.alert
    IN  IF old.some /\ old.v.form = "Payload" THEN old.v.payload
        ELSE AlertPayload_new(None, None)

\* C7: from any builder, title(T) then body(B) and body(B) then title(T) give
\* the same alert, Payload-form with title T and body B and with the other
\* fields of a prior Payload-form alert kept.
C7_MergeLaw ==
    \A T \in BuilderTexts, B \in BuilderTexts :
        /\ LastTwo("title", T, "body", B) =>
              /\ Builder.payload.alert =
                    Some(PayloadForm([PriorFields EXCEPT !.title = Some(T), !.body = Some(B)]))
              /\ Builder.payload.alert
                    = Builder_title(Builder_body(BeforeLastTwo, B), T).payload.alert
        /\ LastTwo("body", B, "title", T) =>
              /\ Builder.payload.alert =
                    Some(PayloadForm([PriorFields EXCEPT !.title = Some(T), !.body = Some(B)]))
              /\ Builder.payload.alert
                    = Builder_body(Builder_title(BeforeLastTwo, T), B).payload.alert

C7_Witness ==
    /\ Len(bTrace) = 3
    /\ bTrace[1] = Call("payload", "localized")
    /\ LastTwo("body", "B", "title", "T")
    /\ Builder.payload.alert.v.payload.title = Some("T")
    /\ Builder.payload.alert.v.payload.body = Some("B")
    /\ Builder.payload.alert.v.payload.loc_key = Some("GAME_PLAY_REQUEST_FORMAT")

\* C8: alert(X) then title(T) gives a Payload-form alert with title T and no
\* body; alert(X) then body(B) gives one with title X and body B; alert(X)
\* after anything gives Simple(X).
C8_SimpleConversion ==
    \A X \in BuilderTexts, Y \in BuilderTexts :
        /\ LastTwo("alert", X, "title", Y) =>
              Builder.payload.alert = Some(PayloadForm(AlertPayload_new(Some(Y), None)))
        /\ LastTwo("alert", X, "body", Y) =>
              Builder.payload.alert = Some(PayloadForm(AlertPayload_new(Some(X), Some(Y))))
        /\ (bTrace # <<>> /\ bTrace[Len(bTrace)] = Call("alert", X)) =>
              Builder.payload.alert = Some(Simple(X))

C8_Witness ==
    /\ Len(bTrace) = 3
    /\ bTrace[1] = Call("title", "T")
    /\ LastTwo("alert", "T", "body", "B")
    /\ Builder.payload.alert.v.form = "Payload"
    /\ Builder.payload.alert.v.payload.title = Some("T")
    /\ Builder.payload.alert.v.payload.body = Some("B")

(***************************************************************************)
(* CollapseId::new applied to Strings on both sides of its length bound,   *)
(* and the collapse id header send makes of the id.                        *)
(***************************************************************************)

\* Strings of up to MaxIdChars equal chars, with or without an ASCII char in
\* front.
MaxIdChars == 66

Chars == {"a", "U+00E9", "U+20AC", "U+1F600"}

TestIds ==
    { lead \o [i \in 1..k |-> c] :
        lead \in {<<>>, <<"a">>}, c \in Chars, k \in 0..MaxIdChars }

CollapseInit ==
    /\ cIn \in TestIds
    /\ cOut = [op |-> "none"]
    /\ ReasonIdle
    /\ BuilderIdle
    /\ ClientInit /\ owner = 1

\* CollapseId::new(value)
New ==
    /\ cOut.op = "none"
    /\ cOut' = [op |-> "new", res |-> CollapseId_new(cIn)]
    /\ UNCHANGED <<cIn, reasonVars, builderVars, clientVars>>

\* #[derive(Deserialize)] on the newtype: the String is taken as it is.
Deserialize ==
    /\ cOut.op = "none"
    /\ cOut' = [op |-> "deserialize", res |-> Ok(cIn)]
    /\ UNCHANGED <<cIn, reasonVars, builderVars, clientVars>>

\* The headers send makes for a notification that carries the id.
SendHeaders ==
    /\ cOut.op \in {"new", "deserialize"}
    /\ cOut.res.ok
    /\ LET n == Builder_collapse_id(
                    NotificationBuilder_new("com.example.app", "abcd1234"),
                    as_str(cOut.res.v))
           fields == HeaderFields(n, DeliveryId(n, GeneratedUuid(1)))
       IN  cOut' = [op |-> "send", res |-> cOut.res, via |-> cOut.op,
                    headers |-> HeaderLines(fields),
                    failed |-> AppendFails(fields)]
    /\ UNCHANGED <<cIn, reasonVars, builderVars, clientVars>>

CollapseNext ==
    \/ New
    \/ Deserialize
    \/ SendHeaders

SpecCollapse == CollapseInit /\ [][CollapseNext]_vars

\* The chars of the String are all ASCII, so its bytes are its chars.
IsAscii == \A i \in DOMAIN cIn : cIn[i] = "a"

Completed == result.fate = "completed" /\ wire.seq = result.seq /\ wire.completed

\* C1: a send whose exchange completes with a status other than 200 and the
\* body {"reason": R} returns Api(ApiError{status, reason}) with the reason
\* decoded from that response, whatever earlier sends received.
C1_ReasonOfThisResponse ==
    \A R \in TestStrings :
        (Completed /\ wire.status # 200 /\ wire.resp = ObjBody(R))
        => /\ result.kind = "Api"
           /\ result.status = wire.status
           /\ result.reason = from_str(R)

\* The steps of send that can fail.
FailureFates ==
    {"header", "serialize", "perform", "response_code"}
    \cup { ConfigSteps[i] : i \in DOMAIN ConfigSteps }

\* C2: on a delivery-enabled client send returns Err(Other) when building the
\* headers, serializing or a transport step fails, Ok(id) when the exchange
\* completes with status 200, and Err(Api) carrying the status when it
\* completes with another status; it never panics.
C2_ThreeWay ==
    (result.kind # "none" /\ result.fate # "disabled") =>
        /\ result.kind \in {"Ok", "Api", "Other"}
        /\ result.fate \in FailureFates \cup {"completed"}
        /\ result.fate \in FailureFates => result.kind = "Other"
        /\ (wire.seq = result.seq /\ ~wire.completed) => result.kind = "Other"
        /\ (result.fate = "completed" /\ result.kind # "Other") => Completed
        /\ (Completed /\ wire.status = 200 /\ result.fate = "completed")
              => result.kind = "Ok" /\ result.id = wire.id
        /\ (Completed /\ wire.status # 200 /\ result.fate = "completed")
              => result.kind = "Api" /\ result.status = wire.status
        /\ result.kind \in {"Ok", "Api"} => Completed

C2_Witness ==
    /\ result.kind = "Api"
    /\ result.status = 204
    /\ Completed
    /\ wire.status = 204
    /\ ~delivery_disabled

\* C3: once delivery is disabled it stays disabled, and every send returns
\* Ok(id), with the notification's id when it has one, without a call on the
\* transport handle, a request on the wire or a serialized payload.
C3_DisabledNoTransport ==
    [][delivery_disabled =>
          /\ delivery_disabled'
          /\ easy' = easy
          /\ borrowed' = borrowed
          /\ wire' \in {wire, NoWire}
          /\ pc' = pc
          /\ (calls' # calls) =>
                /\ result'.seq = calls'
                /\ result'.kind = "Ok"
                /\ result'.fate = "disabled"
                /\ result'.n.id.some => result'.id = result'.n.id.v
                /\ ~result'.n.id.some => result'.id = result'.fresh
                /\ touched' = 0
                /\ serialized' = 0
                /\ wire' = NoWire]_vars

C3_Witness ==
    /\ delivery_disabled
    /\ verbose
    /\ ~production
    /\ result.kind = "Ok"
    /\ result.fate = "disabled"
    /\ result.n.id = Some(ConfiguredUuid(1))
    /\ result.id = ConfiguredUuid(1)
    /\ touched = 0
    /\ serialized = 0
    /\ easy = Easy2_new

\* C4: the request a send performs carries exactly apns-id, apns-expiration,
\* apns-priority, apns-topic and apns-collapse-id, in that order, with the
\* values of this send's notification: an unset option gives an empty value,
\* priority is 5 or 10.
C4_FiveHeaders ==
    wire.seq # 0 =>
        LET n == wire.n
            h == wire.headers
        IN  /\ Len(h) = 5
            /\ h[1] = "apns-id:" \o
                  (IF n.id.some THEN "11111111-1111-1111-8111-" \o ToString(n.id.v.n)
                   ELSE "00000000-0000-4000-8000-" \o ToString(wire.seq))
            /\ h[2] = (IF ~n.expiration.some THEN "apns-expiration:"
                       ELSE IF n.expiration.v = 0 THEN "apns-expiration:0"
                       ELSE IF n.expiration.v = 1700000000
                            THEN "apns-expiration:1700000000"
                       ELSE "?")
            /\ h[3] = (IF ~n.priority.some THEN "apns-priority:"
                       ELSE IF n.priority.v = "Low" THEN "apns-priority:5"
                       ELSE "apns-priority:10")
            /\ h[4] = "apns-topic:" \o n.topic
            /\ h[5] = (IF ~n.collapse_id.some THEN "apns-collapse-id:"
                       ELSE "apns-collapse-id:" \o n.collapse_id.v)
            /\ wire.seq = calls
            /\ \A t \in Threads : pc[t] = "performed" => loc[t].n = n

C4_Witness ==
    /\ wire.seq = 2
    /\ wire.n = BaseNotification
    /\ wire.headers[2] = "apns-expiration:"
    /\ wire.headers[3] = "apns-priority:"
    /\ wire.headers[5] = "apns-collapse-id:"
    /\ easy.collector # <<>>

\* The threads inside send, and those holding the transport handle.
InSend == { t \in Threads : pc[t] # "idle" }
Holding == { t \in Threads : pc[t] \in {"borrowed", "configured", "performed"} }

====
